---- MODULE Spec2Model ----
(***************************************************************************)
(* Model of docs/security/wireguard-example.rs: two Tunn engines A and B   *)
(* joined by two in-memory wire queues (a2b_net, b2a_net) and two          *)
(* interface queues (a_tun, b_tun), the pump loop that moves datagrams     *)
(* between them, and the scenario of main().                               *)
(*                                                                         *)
(* The Tunn engine is an external library.  Two engines are modelled:      *)
(*   kind "wg"  : the handshake / transport behaviour of the library as    *)
(*                its interface documents it (deterministic);              *)
(*   kind "any" : an engine that may answer every call with any result     *)
(*                variant, producing a bounded number of network outputs.  *)
(* A run is either main() (with either engine) or one call of pump() on    *)
(* arbitrary wire queues (with the "any" engine): Spec.  OrderSpec is one  *)
(* call of pump() with "wg" engines, compared with a pump that drains B    *)
(* first; CodecSpec is one call of build_ipv4_udp or ipv4_checksum.        *)
(***************************************************************************)
EXTENDS Integers, Sequences, FiniteSets, TLC

VARIABLES
    run,        \* "main": the scenario of main(); "pump": one call of pump()
    pc,         \* position in main(): handshake, pump1, encap, pump2, verify, done, panic
    ppc,        \* position in pump()/process_incoming(): idle, callA, callB, while, match, ret, test
    who,        \* the `who` argument of the process_incoming call in progress
    a, b,       \* the two Tunn engines
    a2b_net, b2a_net, a_tun, b_tun,   \* the four VecDeques of main()
    did_any,    \* local of process_incoming
    datagram,   \* local of process_incoming: the datagram popped last
    res,        \* local of process_incoming: the result being matched
    p1, p2,     \* locals of pump
    received,   \* local of main (line 56)
    fuel,       \* network-bound outputs the "any" engine may still produce
    nextId,     \* history: identity given to the next buffer an engine produces
    trace,      \* history: the pushes, pops, engine calls and error reports so far
    entryLen,   \* history: length of the inbound queue when process_incoming was entered
    popsInDrain, \* history: datagrams popped by the process_incoming call in progress
    popsInPass, \* history: datagrams popped in the current pass of pump
    drainsInPass, \* history: the process_incoming calls completed in the current pass, in order
    encNet,     \* history: encapsulate calls that returned WriteToNetwork
    stderr,     \* number of "decap error" lines printed
    start,      \* history: the engines and queues pump was called with ("order" run)
    cpc,        \* packet codec: the call under way and whether it has returned
    c_in,       \* packet codec: the arguments of the call
    c_out       \* packet codec: the value returned

vars == <<run, pc, ppc, who, a, b, a2b_net, b2a_net, a_tun, b_tun, did_any, datagram,
          res, p1, p2, received, fuel, nextId, trace, entryLen, popsInDrain,
          popsInPass, drainsInPass, encNet, stderr, start, cpc, c_in, c_out>>
\* What the pump and main leave alone.
aux == <<start, cpc, c_in, c_out>>

\* ---------------------------------------------------------------- bounds
\* Datagrams of a run with the "any" engine: those in the wire queues when
\* pump() is called plus the network-bound outputs the engine may produce.
MaxDatagrams == 3

\* ---------------------------------------------------------------- buffers
Peers == {"A", "B"}
Other(w) == IF w = "A" THEN "B" ELSE "A"

\* A wire datagram.  id is the buffer's identity (history only); t, to, ctr, p
\* are what the "wg" engine reads in it; a "raw" datagram is opaque bytes.
Datagram(id, t, to, ctr, p) == [id |-> id, t |-> t, to |-> to, ctr |-> ctr, p |-> p]
Raw(id) == Datagram(id, "raw", "-", 0, <<id>>)
\* The empty slice &[] passed at line 104.
EmptyDatagram == Datagram(0, "empty", "-", 0, <<>>)

\* TunnResult
WriteToNetwork(pkt) == [tag |-> "WriteToNetwork", pkt |-> pkt, inner |-> <<>>]
WriteToTunnelV4(inner) == [tag |-> "WriteToTunnelV4", pkt |-> EmptyDatagram, inner |-> inner]
WriteToTunnelV6(inner) == [tag |-> "WriteToTunnelV6", pkt |-> EmptyDatagram, inner |-> inner]
Done == [tag |-> "Done", pkt |-> EmptyDatagram, inner |-> <<>>]
Err == [tag |-> "Err", pkt |-> EmptyDatagram, inner |-> <<>>]

\* The packet of lines 37-43: an IPv4 packet (first byte 0x45) carrying the body.
inner == <<69, 104, 105>>

\* ---------------------------------------------------------------- Tunn engine
\* Tunn::new: no handshake in progress, no session, nothing queued.
NewTunn(kind) ==
    [kind |-> kind, hs |-> "none", session |-> FALSE, tx |-> 0, rx |-> {}, queued |-> <<>>]

Outcome(r, e) == [r |-> r, e |-> e]

\* Results an "any" engine may give to a call that can only answer with a
\* network-bound datagram, Done or an error (format_handshake_initiation, encapsulate).
AnySend(e, id, f) ==
    {Outcome(r, e) : r \in (IF f > 0 THEN {WriteToNetwork(Raw(id))} ELSE {}) \cup {Done, Err}}

\* Results an "any" engine may give to decapsulate: every variant of TunnResult.
AnyDecapsulate(e, id, f) ==
    {Outcome(r, e) : r \in (IF f > 0 THEN {WriteToNetwork(Raw(id))} ELSE {})
                            \cup {WriteToTunnelV4(<<id>>), WriteToTunnelV6(<<id>>), Done, Err}}

\* "wg" engine: a handshake initiation addressed to the peer, unless one is in progress.
WgFormatHandshakeInitiation(e, self, id) ==
    IF e.hs = "init_sent"
    THEN {Outcome(Done, e)}
    ELSE {Outcome(WriteToNetwork(Datagram(id, "init", Other(self), 0, <<>>)),
                  [e EXCEPT !.hs = "init_sent"])}

\* "wg" engine: with a session, a transport datagram carrying the plaintext under
\* the next sending counter; without one, the plaintext is queued and a handshake started.
WgEncapsulate(e, self, plaintext, id) ==
    IF e.session
    THEN {Outcome(WriteToNetwork(Datagram(id, "data", Other(self), e.tx, plaintext)),
                  [e EXCEPT !.tx = e.tx + 1])}
    ELSE WgFormatHandshakeInitiation([e EXCEPT !.queued = Append(e.queued, plaintext)], self, id)

\* "wg" engine, decapsulate.  An empty datagram asks for queued output; an
\* initiation is answered with a response; a response completes the handshake
\* and is answered with a keepalive (a transport datagram with no payload); a
\* transport datagram is authenticated, checked against replay and handed to
\* the interface by the IP version of its payload (nothing for a keepalive);
\* anything else is an error.
WgDecapsulate(e, self, dg, id) ==
    CASE dg.t = "empty" ->
            IF e.session /\ e.queued # <<>>
            THEN {Outcome(WriteToNetwork(Datagram(id, "data", Other(self), e.tx, Head(e.queued))),
                          [e EXCEPT !.tx = e.tx + 1, !.queued = Tail(e.queued)])}
            ELSE {Outcome(Done, e)}
      [] dg.t = "init" ->
            IF dg.to = self
            THEN {Outcome(WriteToNetwork(Datagram(id, "resp", Other(self), 0, <<>>)),
                          [e EXCEPT !.session = TRUE])}
            ELSE {Outcome(Err, e)}
      [] dg.t = "resp" ->
            IF dg.to = self /\ e.hs = "init_sent"
            THEN {Outcome(WriteToNetwork(Datagram(id, "data", Other(self), e.tx, <<>>)),
                          [e EXCEPT !.hs = "none", !.session = TRUE, !.tx = e.tx + 1])}
            ELSE {Outcome(Err, e)}
      [] dg.t = "data" ->
            IF dg.to = self /\ e.session /\ dg.ctr \notin e.rx
            THEN LET e2 == [e EXCEPT !.rx = e.rx \cup {dg.ctr}]
                 IN  IF dg.p = <<>> THEN {Outcome(Done, e2)}
                     ELSE IF Head(dg.p) \div 16 = 4 THEN {Outcome(WriteToTunnelV4(dg.p), e2)}
                     ELSE IF Head(dg.p) \div 16 = 6 THEN {Outcome(WriteToTunnelV6(dg.p), e2)}
                     ELSE {Outcome(Err, e2)}
            ELSE {Outcome(Err, e)}
      [] OTHER -> {Outcome(Err, e)}

format_handshake_initiation(e, self, id, f) ==
    IF e.kind = "wg" THEN WgFormatHandshakeInitiation(e, self, id) ELSE AnySend(e, id, f)

encapsulate(e, self, plaintext, id, f) ==
    IF e.kind = "wg" THEN WgEncapsulate(e, self, plaintext, id) ELSE AnySend(e, id, f)

decapsulate(e, self, dg, id, f) ==
    IF e.kind = "wg" THEN WgDecapsulate(e, self, dg, id) ELSE AnyDecapsulate(e, id, f)

\* Bookkeeping of an engine call: a produced buffer takes the next identity,
\* and a network-bound output of the "any" engine uses up one unit of fuel.
Produces(r) == r.tag \in {"WriteToNetwork", "WriteToTunnelV4", "WriteToTunnelV6"}
IdAfter(r) == IF Produces(r) THEN nextId + 1 ELSE nextId
FuelAfter(e, r) == IF e.kind = "any" /\ r.tag = "WriteToNetwork" THEN fuel - 1 ELSE fuel

\* ---------------------------------------------------------------- history
\* An event: who did it, the queue it touched, the identity x of the buffer
\* popped, pushed or passed to the engine (0: the empty datagram, or a buffer
\* for an interface), and for an engine call the variant and the identity of
\* the datagram it returned.
Ev(ev, w, q, x, tag, out) == [ev |-> ev, who |-> w, q |-> q, x |-> x, tag |-> tag, out |-> out]
EvPop(w, q, dg) == Ev("pop", w, q, dg.id, "-", 0)
EvCall(w, dg, r) == Ev("call", w, "-", dg.id, r.tag, r.pkt.id)
EvPush(w, q, x) == Ev("push", w, q, x, "-", 0)
EvErr(w) == Ev("err", w, "-", 0, "-", 0)

\* ---------------------------------------------------------------- process_incoming
\* The arguments pump passes at lines 74 and 75.
incoming_net == IF who = "A" THEN b2a_net ELSE a2b_net
outgoing_net == IF who = "A" THEN a2b_net ELSE b2a_net
out_tun == IF who = "A" THEN a_tun ELSE b_tun
me == IF who = "A" THEN a ELSE b
incoming_name == IF who = "A" THEN "b2a_net" ELSE "a2b_net"
outgoing_name == IF who = "A" THEN "a2b_net" ELSE "b2a_net"
tun_name == IF who = "A" THEN "a_tun" ELSE "b_tun"

\* Network-bound output pushed to the inbound queue instead of the outbound one.
BindOutputToInbound(in, out, tun, eng) ==
    LET new == SubSeq(out, Len(outgoing_net) + 1, Len(out)) IN
    IF who = "A"
    THEN /\ b2a_net' = in \o new /\ a2b_net' = a2b_net /\ a_tun' = tun /\ a' = eng
         /\ UNCHANGED <<b_tun, b>>
    ELSE /\ a2b_net' = in \o new /\ b2a_net' = b2a_net /\ b_tun' = tun /\ b' = eng
         /\ UNCHANGED <<a_tun, a>>

\* B's call wired like A's: B drains b2a_net and writes to a2b_net.
BindWiresCrossed(in, out, tun, eng) ==
    IF who = "A"
    THEN /\ b2a_net' = in /\ a2b_net' = out /\ a_tun' = tun /\ a' = eng
         /\ UNCHANGED <<b_tun, b>>
    ELSE /\ b2a_net' = in /\ a2b_net' = out /\ b_tun' = tun /\ b' = eng
         /\ UNCHANGED <<a_tun, a>>

\* Interface-bound output pushed to the other peer's interface queue.
BindTunToOther(in, out, tun, eng) ==
    LET new == SubSeq(tun, Len(out_tun) + 1, Len(tun)) IN
    IF who = "A"
    THEN /\ b2a_net' = in /\ a2b_net' = out /\ b_tun' = b_tun \o new /\ a' = eng
         /\ UNCHANGED <<a_tun, b>>
    ELSE /\ a2b_net' = in /\ b2a_net' = out /\ a_tun' = a_tun \o new /\ b' = eng
         /\ UNCHANGED <<b_tun, a>>

\* Writes through the &mut arguments of the call in progress.
Bind(in, out, tun, eng) ==
    IF who = "A"
    THEN /\ b2a_net' = in /\ a2b_net' = out /\ a_tun' = tun /\ a' = eng
         /\ UNCHANGED <<b_tun, b>>
    ELSE /\ a2b_net' = in /\ b2a_net' = out /\ b_tun' = tun /\ b' = eng
         /\ UNCHANGED <<a_tun, a>>

\* A push_back that loses the buffer.
PushBackDropped(q, x) == q
\* push_front where the code has push_back.
PushFront(q, x) == <<x>> \o q
\* VecDeque::push_back
PushBack(q, x) == Append(q, x)

\* A WriteToTunnel arm that forgets the push.
OutTunForgotten(q, r) == q
\* A WriteToTunnel arm that pushes the payload twice.
OutTunTwice(q, r) == PushBack(PushBack(q, r.inner), r.inner)
\* lines 107 and 111: out_tun.push_back(inner.to_vec())
OutTunAfter(q, r) == PushBack(q, r.inner)
\* did_any starting out true.
DidAnyInitTrue == TRUE
\* line 89
DidAnyInit == FALSE
\* did_any left as it was when a datagram is popped.
DidAnyAfterPopKept(d) == d
\* line 92
DidAnyAfterPop(d) == TRUE
\* The follow-up call made with the datagram just processed.
ReinvokeOriginal(dg) == dg
\* line 104: the datagram of the follow-up call
ReinvokeDatagram(dg) == EmptyDatagram
\* A loop that stops unless both calls did something.
PumpBreakUnlessBoth(x, y) == ~(x /\ y)
\* The loop left on the flag of A's drain alone.
PumpBreakOnFirst(x, y) == ~x
\* line 76
PumpBreak(x, y) == ~(x \/ y)
\* Done treated like WriteToNetwork: the engine is called again after it.
ReinvokesUntilQuiet(tag) == tag \in {"WriteToNetwork", "Done"}
\* A sub-loop capped at one re-invocation: only the result of the call that
\* was given the datagram is followed up.
ReinvokesCapped(tag) == tag = "WriteToNetwork" /\ trace[Len(trace)].x # EmptyDatagram.id
\* lines 99-105: the arm of the match that assigns res again and stays in the loop
Reinvokes(tag) == tag = "WriteToNetwork"
\* An error that returns from process_incoming instead of breaking the inner loop.
AfterBreakErrReturns(tag) == IF tag = "Err" THEN "ret" ELSE "while"
\* lines 108, 112, 114, 117: break leaves the inner loop for the head of the while
AfterBreak(tag) == "while"

\* Lines 74, 75 and 89: pump calls process_incoming for A, then for B.
ProcessIncomingCall ==
    /\ ppc \in {"callA", "callB"}
    /\ who' = IF ppc = "callA" THEN "A" ELSE "B"
    /\ did_any' = DidAnyInit
    /\ entryLen' = IF ppc = "callA" THEN Len(b2a_net) ELSE Len(a2b_net)
    /\ popsInDrain' = 0
    /\ popsInPass' = IF ppc = "callA" THEN 0 ELSE popsInPass
    /\ drainsInPass' = IF ppc = "callA" THEN <<>> ELSE drainsInPass
    /\ ppc' = "while"
    /\ UNCHANGED <<aux, run, pc, a, b, a2b_net, b2a_net, a_tun, b_tun, datagram, res, p1, p2,
                   received, fuel, nextId, trace, encNet, stderr>>

\* Lines 91-96: pop the front datagram, note the work, decapsulate it.
WhilePop ==
    /\ ppc = "while"
    /\ incoming_net # <<>>
    /\ LET dg == Head(incoming_net) IN
       \E o \in decapsulate(me, who, dg, nextId, fuel) :
          /\ Bind(Tail(incoming_net), outgoing_net, out_tun, o.e)
          /\ datagram' = dg
          /\ did_any' = DidAnyAfterPop(did_any)
          /\ res' = o.r
          /\ nextId' = IdAfter(o.r)
          /\ fuel' = FuelAfter(me, o.r)
          /\ trace' = trace \o <<EvPop(who, incoming_name, dg), EvCall(who, dg, o.r)>>
    /\ popsInDrain' = popsInDrain + 1
    /\ popsInPass' = popsInPass + 1
    /\ ppc' = "match"
    /\ UNCHANGED <<aux, run, pc, who, p1, p2, received, entryLen, drainsInPass, encNet, stderr>>

\* Line 91: the queue is empty, the while loop ends.
WhileExit ==
    /\ ppc = "while"
    /\ incoming_net = <<>>
    /\ ppc' = "ret"
    /\ UNCHANGED <<aux, run, pc, who, a, b, a2b_net, b2a_net, a_tun, b_tun, did_any, datagram,
                   res, p1, p2, received, fuel, nextId, trace, entryLen, popsInDrain,
                   popsInPass, drainsInPass, encNet, stderr>>

\* Line 123, and the binding of p1 / p2 at lines 74 / 75: process_incoming
\* returns did_any.
Return ==
    /\ ppc = "ret"
    /\ IF who = "A"
       THEN p1' = did_any /\ p2' = p2 /\ ppc' = "callB"
       ELSE p2' = did_any /\ p1' = p1 /\ ppc' = "test"
    /\ drainsInPass' = Append(drainsInPass, who)
    /\ UNCHANGED <<aux, run, pc, who, a, b, a2b_net, b2a_net, a_tun, b_tun, did_any, datagram,
                   res, received, fuel, nextId, trace, entryLen, popsInDrain, popsInPass,
                   encNet, stderr>>

\* Lines 100-105: push the packet to the outgoing queue and call decapsulate again.
MatchWriteToNetwork ==
    /\ ppc = "match"
    /\ Reinvokes(res.tag)
    /\ LET arg == ReinvokeDatagram(datagram) IN
       \E o \in decapsulate(me, who, arg, nextId, fuel) :
          /\ Bind(incoming_net, PushBack(outgoing_net, res.pkt), out_tun, o.e)
          /\ res' = o.r
          /\ nextId' = IdAfter(o.r)
          /\ fuel' = FuelAfter(me, o.r)
          /\ trace' = trace \o <<EvPush(who, outgoing_name, res.pkt.id), EvCall(who, arg, o.r)>>
    /\ ppc' = "match"
    /\ UNCHANGED <<aux, run, pc, who, did_any, datagram, p1, p2, received, entryLen, popsInDrain, popsInPass,
                   drainsInPass, encNet, stderr>>

\* Lines 106-109
MatchWriteToTunnelV4 ==
    /\ ppc = "match"
    /\ ~Reinvokes(res.tag) /\ res.tag = "WriteToTunnelV4"
    /\ Bind(incoming_net, outgoing_net, OutTunAfter(out_tun, res), me)
    /\ trace' = Append(trace, EvPush(who, tun_name, 0))
    /\ ppc' = AfterBreak(res.tag)
    /\ UNCHANGED <<aux, run, pc, who, did_any, datagram, res, p1, p2, received, fuel, nextId,
                   entryLen, popsInDrain, popsInPass, drainsInPass, encNet, stderr>>

\* Lines 110-113
MatchWriteToTunnelV6 ==
    /\ ppc = "match"
    /\ ~Reinvokes(res.tag) /\ res.tag = "WriteToTunnelV6"
    /\ Bind(incoming_net, outgoing_net, OutTunAfter(out_tun, res), me)
    /\ trace' = Append(trace, EvPush(who, tun_name, 0))
    /\ ppc' = AfterBreak(res.tag)
    /\ UNCHANGED <<aux, run, pc, who, did_any, datagram, res, p1, p2, received, fuel, nextId,
                   entryLen, popsInDrain, popsInPass, drainsInPass, encNet, stderr>>

\* Line 114
MatchDone ==
    /\ ppc = "match"
    /\ ~Reinvokes(res.tag) /\ res.tag = "Done"
    /\ ppc' = AfterBreak(res.tag)
    /\ UNCHANGED <<aux, run, pc, who, a, b, a2b_net, b2a_net, a_tun, b_tun, did_any, datagram,
                   res, p1, p2, received, fuel, nextId, trace, entryLen, popsInDrain, popsInPass,
                   drainsInPass, encNet, stderr>>

\* Lines 115-118: print the error, go on with the next datagram.
MatchErr ==
    /\ ppc = "match"
    /\ ~Reinvokes(res.tag) /\ res.tag = "Err"
    /\ stderr' = stderr + 1
    /\ trace' = Append(trace, EvErr(who))
    /\ ppc' = AfterBreak(res.tag)
    /\ UNCHANGED <<aux, run, pc, who, a, b, a2b_net, b2a_net, a_tun, b_tun, did_any, datagram,
                   res, p1, p2, received, fuel, nextId, entryLen, popsInDrain, popsInPass,
                   drainsInPass, encNet>>

\* ---------------------------------------------------------------- pump
\* Where main (or the caller of pump) goes on when pump returns.
AfterPump(p) == CASE p = "pump1" -> "encap" [] p = "pump2" -> "verify" [] OTHER -> "done"

\* Lines 34, 53, 65-73: pump is called and enters its loop.
PumpCall ==
    /\ pc \in {"pump1", "pump2", "pump"}
    /\ ppc = "idle"
    /\ ppc' = "callA"
    /\ UNCHANGED <<aux, run, pc, who, a, b, a2b_net, b2a_net, a_tun, b_tun, did_any, datagram,
                   res, p1, p2, received, fuel, nextId, trace, entryLen, popsInDrain, popsInPass,
                   drainsInPass, encNet, stderr>>

\* Lines 76-79: leave the loop when neither call did anything, else go round again.
PumpTest ==
    /\ ppc = "test"
    /\ IF PumpBreak(p1, p2)
       THEN ppc' = "idle" /\ pc' = AfterPump(pc)
       ELSE ppc' = "callA" /\ pc' = pc
    /\ UNCHANGED <<aux, run, who, a, b, a2b_net, b2a_net, a_tun, b_tun, did_any, datagram, res,
                   p1, p2, received, fuel, nextId, trace, entryLen, popsInDrain, popsInPass,
                   drainsInPass, encNet, stderr>>

\* ---------------------------------------------------------------- main
\* Lines 27-31: A formats a handshake initiation; a WriteToNetwork result is queued.
KickOffHandshake ==
    /\ pc = "handshake"
    /\ \E o \in format_handshake_initiation(a, "A", nextId, fuel) :
          /\ a' = o.e
          /\ a2b_net' = IF o.r.tag = "WriteToNetwork" THEN PushBack(a2b_net, o.r.pkt)
                        ELSE a2b_net
          /\ trace' = IF o.r.tag = "WriteToNetwork"
                      THEN Append(trace, EvPush("main", "a2b_net", o.r.pkt.id))
                      ELSE trace
          /\ nextId' = IdAfter(o.r)
          /\ fuel' = FuelAfter(a, o.r)
    /\ pc' = "pump1"
    /\ UNCHANGED <<aux, run, ppc, who, b, b2a_net, a_tun, b_tun, did_any, datagram, res, p1, p2,
                   received, entryLen, popsInDrain, popsInPass, drainsInPass, encNet, stderr>>

\* Any encapsulate result accepted: main goes on to the second pump.
AfterEncapsulateIgnored(tag) == "pump2"
\* Lines 47-50: WriteToNetwork is queued and main goes on; anything else panics.
AfterEncapsulate(tag) == IF tag = "WriteToNetwork" THEN "pump2" ELSE "panic"

\* Lines 36-50: build the inner packet and encapsulate it on A.
Encapsulate ==
    /\ pc = "encap"
    /\ \E o \in encapsulate(a, "A", inner, nextId, fuel) :
          /\ a' = o.e
          /\ nextId' = IdAfter(o.r)
          /\ fuel' = FuelAfter(a, o.r)
          /\ IF o.r.tag = "WriteToNetwork"
             THEN /\ a2b_net' = PushBack(a2b_net, o.r.pkt)
                  /\ trace' = Append(trace, EvPush("main", "a2b_net", o.r.pkt.id))
                  /\ encNet' = encNet + 1
             ELSE /\ UNCHANGED <<a2b_net, trace, encNet>>
          /\ pc' = AfterEncapsulate(o.r.tag)
    /\ UNCHANGED <<aux, run, ppc, who, b, b2a_net, a_tun, b_tun, did_any, datagram, res, p1, p2,
                   received, entryLen, popsInDrain, popsInPass, drainsInPass, stderr>>

\* Lines 55-58: pop B's interface queue and compare with the inner packet.
Verify ==
    /\ pc = "verify"
    /\ IF b_tun = <<>>
       THEN pc' = "panic" /\ UNCHANGED <<b_tun, received>>
       ELSE /\ received' = Head(b_tun)
            /\ b_tun' = Tail(b_tun)
            /\ pc' = IF inner = Head(b_tun) THEN "done" ELSE "panic"
    /\ UNCHANGED <<aux, run, ppc, who, a, b, a2b_net, b2a_net, a_tun, did_any, datagram, res,
                   p1, p2, fuel, nextId, trace, entryLen, popsInDrain, popsInPass, drainsInPass,
                   encNet, stderr>>

\* ---------------------------------------------------------------- specification
InitLocals ==
    /\ ppc = "idle" /\ who = "A" /\ did_any = FALSE /\ datagram = EmptyDatagram
    /\ res = Done /\ p1 = FALSE /\ p2 = FALSE /\ received = <<>>
    /\ entryLen = 0 /\ popsInDrain = 0 /\ popsInPass = 0 /\ drainsInPass = <<>>
    /\ encNet = 0 /\ stderr = 0

\* No pump snapshot, no codec call.
NoStart == [kind |-> "none"]
InitAux == start = NoStart /\ cpc = "-" /\ c_in = <<>> /\ c_out = <<>>

\* Lines 7-25: main with two fresh engines and four empty queues.
InitMain ==
    /\ run = "main" /\ pc = "handshake"
    /\ \E k \in {"wg", "any"} :
          /\ a = NewTunn(k) /\ b = NewTunn(k)
          /\ fuel = IF k = "any" THEN MaxDatagrams ELSE 0
    /\ a2b_net = <<>> /\ b2a_net = <<>> /\ a_tun = <<>> /\ b_tun = <<>>
    /\ nextId = 1 /\ trace = <<>>
    /\ InitLocals /\ InitAux

\* pump called on wire queues holding up to MaxDatagrams opaque datagrams.
InitPump ==
    /\ run = "pump" /\ pc = "pump"
    /\ a = NewTunn("any") /\ b = NewTunn("any")
    /\ \E n \in 0..MaxDatagrams : \E m \in 0..(MaxDatagrams - n) :
          /\ fuel = MaxDatagrams - (n + m)
          /\ a2b_net = [i \in 1..n |-> Raw(i)]
          /\ b2a_net = [i \in 1..m |-> Raw(n + i)]
          /\ nextId = n + m + 1
          /\ trace = [i \in 1..(n + m) |->
                        EvPush("caller", IF i <= n THEN "a2b_net" ELSE "b2a_net", i)]
    /\ a_tun = <<>> /\ b_tun = <<>>
    /\ InitLocals /\ InitAux

Init == InitMain \/ InitPump

Next ==
    \/ KickOffHandshake
    \/ PumpCall
    \/ ProcessIncomingCall
    \/ WhilePop
    \/ WhileExit
    \/ Return
    \/ MatchWriteToNetwork
    \/ MatchWriteToTunnelV4
    \/ MatchWriteToTunnelV6
    \/ MatchDone
    \/ MatchErr
    \/ PumpTest
    \/ Encapsulate
    \/ Verify

Spec == Init /\ [][Next]_vars

\* The runs of main alone.  main and pump run on one thread with nothing to
\* wait for: a step that can be taken is taken.
ScenarioSpec == InitMain /\ [][Next]_vars /\ WF_vars(Next)

\* ---------------------------------------------------------------- pump, drain order
\* pump() as a function of the engines and queues it is called with, the two
\* process_incoming calls of lines 74-75 made in the order given.  For
\* engines whose answer is determined by their state and the datagram.
Snapshot == [kind |-> "pump", a |-> a, b |-> b, a2b_net |-> a2b_net, b2a_net |-> b2a_net,
             a_tun |-> a_tun, b_tun |-> b_tun, id |-> nextId]
FIn(st, w) == IF w = "A" THEN st.b2a_net ELSE st.a2b_net
FOut(st, w) == IF w = "A" THEN st.a2b_net ELSE st.b2a_net
FTun(st, w) == IF w = "A" THEN st.a_tun ELSE st.b_tun
FMe(st, w) == IF w = "A" THEN st.a ELSE st.b
FBind(st, w, in, out, tun, o) ==
    LET id2 == IF Produces(o.r) THEN st.id + 1 ELSE st.id IN
    IF w = "A"
    THEN [st EXCEPT !.b2a_net = in, !.a2b_net = out, !.a_tun = tun, !.a = o.e, !.id = id2]
    ELSE [st EXCEPT !.a2b_net = in, !.b2a_net = out, !.b_tun = tun, !.b = o.e, !.id = id2]
FDecapsulate(st, w, dg) == CHOOSE o \in decapsulate(FMe(st, w), w, dg, st.id, 0) : TRUE

\* Lines 98-120: the loop on the result r of the call made for datagram dg.
RECURSIVE FMatch(_, _, _, _)
FMatch(st, w, dg, r) ==
    IF Reinvokes(r.tag)
    THEN LET o == FDecapsulate(st, w, ReinvokeDatagram(dg))
         IN  FMatch(FBind(st, w, FIn(st, w), PushBack(FOut(st, w), r.pkt), FTun(st, w), o),
                    w, dg, o.r)
    ELSE IF r.tag \in {"WriteToTunnelV4", "WriteToTunnelV6"}
    THEN FBind(st, w, FIn(st, w), FOut(st, w), OutTunAfter(FTun(st, w), r),
               Outcome(Done, FMe(st, w)))
    ELSE st

\* Lines 89-123: process_incoming for peer w; did is did_any so far.
RECURSIVE FProcessIncoming(_, _, _)
FProcessIncoming(st, w, did) ==
    IF FIn(st, w) = <<>>
    THEN [st |-> st, did |-> did]
    ELSE LET dg == Head(FIn(st, w))
             o == FDecapsulate(st, w, dg)
         IN  FProcessIncoming(
                 FMatch(FBind(st, w, Tail(FIn(st, w)), FOut(st, w), FTun(st, w), o), w, dg, o.r),
                 w, DidAnyAfterPop(did))

\* Lines 65-80 with the two calls in the given order.
RECURSIVE FPump(_, _)
FPump(st, order) ==
    LET d1 == FProcessIncoming(st, order[1], DidAnyInit)
        d2 == FProcessIncoming(d1.st, order[2], DidAnyInit)
    IN  IF PumpBreak(d1.did, d2.did) THEN d2.st ELSE FPump(d2.st, order)

\* Wire datagrams drawn for the "order" run, as the "wg" engine reads them:
\* an initiation, a response, a transport datagram carrying the IPv4 packet of
\* main and one carrying an IPv6 packet.
MaxWire == 2
WireKinds == {"init", "resp", "v4", "v6"}
WireSample(k, to, id) ==
    CASE k = "init" -> Datagram(id, "init", to, 0, <<>>)
      [] k = "resp" -> Datagram(id, "resp", to, 0, <<>>)
      [] k = "v4" -> Datagram(id, "data", to, 0, inner)
      [] OTHER -> Datagram(id, "data", to, 1, <<96, 104, 105>>)
KindSeqs(n) == UNION {[1..k -> WireKinds] : k \in 0..n}
\* Engine states the scenario of main goes through: fresh, initiation sent
\* (with or without a packet waiting for the session), session established.
WgStates ==
    LET new == NewTunn("wg") IN
    {new,
     [new EXCEPT !.hs = "init_sent"],
     [new EXCEPT !.hs = "init_sent", !.queued = <<inner>>],
     [new EXCEPT !.session = TRUE, !.tx = 1]}

\* pump called with "wg" engines on wire queues holding up to MaxWire datagrams.
InitOrder ==
    /\ run = "order" /\ pc = "pump"
    /\ a \in WgStates /\ b \in WgStates
    /\ fuel = 0
    /\ \E ka \in KindSeqs(MaxWire) : \E kb \in KindSeqs(MaxWire - Len(ka)) :
          /\ a2b_net = [i \in 1..Len(ka) |-> WireSample(ka[i], "B", i)]
          /\ b2a_net = [i \in 1..Len(kb) |-> WireSample(kb[i], "A", Len(ka) + i)]
          /\ nextId = Len(ka) + Len(kb) + 1
          /\ trace = [i \in 1..(Len(ka) + Len(kb)) |->
                        EvPush("caller", IF i <= Len(ka) THEN "a2b_net" ELSE "b2a_net", i)]
    /\ a_tun = <<>> /\ b_tun = <<>>
    /\ InitLocals
    /\ start = Snapshot
    /\ cpc = "-" /\ c_in = <<>> /\ c_out = <<>>

NextPump ==
    \/ PumpCall
    \/ ProcessIncomingCall
    \/ WhilePop
    \/ WhileExit
    \/ Return
    \/ MatchWriteToNetwork
    \/ MatchWriteToTunnelV4
    \/ MatchWriteToTunnelV6
    \/ MatchDone
    \/ MatchErr
    \/ PumpTest

OrderSpec == InitOrder /\ [][NextPump]_vars

\* ---------------------------------------------------------------- packet codec
\* Bytes are 0..255; a slice or Vec<u8> is a sequence of bytes (index i of the
\* code is index i + 1 here).
\* u16::to_be_bytes
ToBeBytes(w) == <<w \div 256, w % 256>>
\* u16::from_be_bytes([hi, lo]) as u32
FromBeBytes(hi, lo) == hi * 256 + lo
\* `x as u16` for a usize or u32 x: the low 16 bits.
AsU16(x) == x % 65536
\* `!x` for a u16 x.
NotU16(x) == 65535 - x

\* Lines 165-171: the words at offsets 0, 2, .., 18 except 10 added to sum.
\* (wrapping_add never wraps: nine 16-bit words stay far below 2^32.)
RECURSIVE SumWords(_, _, _)
SumWords(hdr, i, sum) ==
    IF i >= 20 THEN sum
    ELSE IF i = 10 THEN SumWords(hdr, i + 2, sum)
    ELSE SumWords(hdr, i + 2, sum + FromBeBytes(hdr[i + 1], hdr[i + 2]))

\* One round of carry folding where the code loops.
FoldOnce(sum) == (sum % 65536) + (sum \div 65536)
\* Lines 172-174: while (sum >> 16) != 0 { sum = (sum & 0xFFFF) + (sum >> 16) }
RECURSIVE Fold(_)
Fold(sum) == IF sum \div 65536 # 0 THEN Fold((sum % 65536) + (sum \div 65536)) ELSE sum

\* Lines 163-176
ipv4_checksum(hdr) == NotU16(AsU16(Fold(SumWords(hdr, 0, 0))))

\* Lines 126-161
build_ipv4_udp(src, dst, src_port, dst_port, payload) ==
    LET total_len == 20 + 8 + Len(payload)
        ip0 == <<69, 0>> \o ToBeBytes(AsU16(total_len)) \o ToBeBytes(0) \o ToBeBytes(16384)
                  \o <<64, 17>> \o <<0, 0>> \o src \o dst
        cksum == ipv4_checksum(ip0)
        ip == SubSeq(ip0, 1, 10) \o ToBeBytes(cksum) \o SubSeq(ip0, 13, 20)
        udp_len == 8 + Len(payload)
        udp == ToBeBytes(src_port) \o ToBeBytes(dst_port) \o ToBeBytes(AsU16(udp_len))
                  \o ToBeBytes(0)
    IN  ip \o udp \o payload

\* Payloads: every byte string of up to MaxPayload bytes over three byte
\* values, the body sent by main, and two bodies around the largest one an
\* IPv4 packet can carry.
MaxPayload == 2
PayloadBytes == {0, 104, 255}
Hello == <<104, 101, 108, 108, 111, 32, 111, 118, 101, 114, 32,
           98, 111, 114, 105, 110, 103, 116, 117, 110>>
Filled(n) == [i \in 1..n |-> 104]
ShortPayloads == UNION {[1..k -> PayloadBytes] : k \in 0..MaxPayload}
LongPayloads == {Filled(65535 - 28), Filled(65536 - 28)}
MainArgs(payload) ==
    [src |-> <<10, 0, 0, 1>>, dst |-> <<10, 0, 0, 2>>, src_port |-> 12345,
     dst_port |-> 54321, payload |-> payload]
BuildInputs ==
    [src : {<<10, 0, 0, 1>>, <<255, 255, 255, 255>>}, dst : {<<10, 0, 0, 2>>},
     src_port : {12345, 65535}, dst_port : {54321, 0}, payload : ShortPayloads]
    \cup {MainArgs(Hello)} \cup {MainArgs(p) : p \in LongPayloads}

\* 20-byte headers: the first MaxWords words drawn from four values, the
\* checksum field zero or not, the rest zero.
MaxWords == 3
WordSamples == {0, 1, 17664, 65535}
HeaderOf(ws, ck) ==
    LET word(k) == IF k = 6 THEN ck ELSE IF k <= Len(ws) THEN ws[k] ELSE 0
        bytes(k) == ToBeBytes(word(k))
    IN  [i \in 1..20 |-> bytes((i + 1) \div 2)[2 - (i % 2)]]
HeaderInputs == {HeaderOf(ws, ck) : ws \in [1..MaxWords -> WordSamples], ck \in {0, 43981}}

\* Line 37 (and any other call): build_ipv4_udp returns.
BuildIpv4Udp ==
    /\ cpc = "build"
    /\ c_out' = build_ipv4_udp(c_in.src, c_in.dst, c_in.src_port, c_in.dst_port, c_in.payload)
    /\ cpc' = "built"
    /\ UNCHANGED <<c_in, start, run, pc, ppc, who, a, b, a2b_net, b2a_net, a_tun, b_tun,
                   did_any, datagram, res, p1, p2, received, fuel, nextId, trace, entryLen,
                   popsInDrain, popsInPass, drainsInPass, encNet, stderr>>

\* Line 146 (and any other call): ipv4_checksum returns.
Ipv4Checksum ==
    /\ cpc = "checksum"
    /\ c_out' = ipv4_checksum(c_in)
    /\ cpc' = "summed"
    /\ UNCHANGED <<c_in, start, run, pc, ppc, who, a, b, a2b_net, b2a_net, a_tun, b_tun,
                   did_any, datagram, res, p1, p2, received, fuel, nextId, trace, entryLen,
                   popsInDrain, popsInPass, drainsInPass, encNet, stderr>>

\* One call of a codec function on sampled arguments; nothing else runs.
InitCodec ==
    /\ run = "codec" /\ pc = "codec"
    /\ a = NewTunn("any") /\ b = NewTunn("any") /\ fuel = 0
    /\ a2b_net = <<>> /\ b2a_net = <<>> /\ a_tun = <<>> /\ b_tun = <<>>
    /\ nextId = 1 /\ trace = <<>>
    /\ InitLocals
    /\ start = NoStart
    /\ \/ cpc = "build" /\ c_in \in BuildInputs
       \/ cpc = "checksum" /\ c_in \in HeaderInputs
    /\ c_out = <<>>

NextCodec ==
    \/ BuildIpv4Udp
    \/ Ipv4Checksum

CodecSpec == InitCodec /\ [][NextCodec]_vars

TypeOK ==
    /\ run \in {"main", "pump", "order", "codec"}
    /\ pc \in {"handshake", "pump1", "encap", "pump2", "verify", "done", "panic", "pump", "codec"}
    /\ ppc \in {"idle", "callA", "callB", "while", "match", "ret", "test"}
    /\ who \in Peers
    /\ did_any \in BOOLEAN /\ p1 \in BOOLEAN /\ p2 \in BOOLEAN
    /\ fuel \in 0..MaxDatagrams

\* ---------------------------------------------------------------- reading the history
PumpReturned == ppc = "idle" /\ pc \in {"encap", "verify", "done", "panic"}
WgScenario == run = "main" /\ a.kind = "wg"

IsPop(i) == trace[i].ev = "pop"
IsCall(i) == trace[i].ev = "call"
IsPush(i) == trace[i].ev = "push"
NetQueues == {"a2b_net", "b2a_net"}
TunQueues == {"a_tun", "b_tun"}
OutgoingOf(w) == IF w = "A" THEN "a2b_net" ELSE "b2a_net"
TunOf(w) == IF w = "A" THEN "a_tun" ELSE "b_tun"
NonNetTags == {"WriteToTunnelV4", "WriteToTunnelV6", "Done", "Err"}

Pushes(q) == {i \in DOMAIN trace : IsPush(i) /\ trace[i].q = q}
Pops(q) == {i \in DOMAIN trace : IsPop(i) /\ trace[i].q = q}
TunPushes == Cardinality(Pushes("a_tun")) + Cardinality(Pushes("b_tun"))

\* ---------------------------------------------------------------- claims

\* C1: in the scenario of main with the handshake engine (A initiates, pump,
\* A encapsulates the inner packet and gets WriteToNetwork, pump), when the
\* second pump has returned B's interface queue holds exactly one entry, equal
\* to the packet A encapsulated.
C1_PayloadDelivered == (WgScenario /\ pc = "verify") => b_tun = <<inner>>

C1_Witness == WgScenario /\ pc = "verify" /\ ppc = "idle" /\ encNet = 1 /\ Len(b_tun) = 1

\* C2: in the handshake-only scenario (A's initiation is the only datagram
\* queued, handshake engine) the first pump call eventually returns.
C2_PumpTerminates == (WgScenario /\ pc = "pump1") ~> (pc = "encap" /\ ppc = "idle")

C2_Witness ==
    /\ WgScenario /\ pc = "encap" /\ ppc = "idle"
    /\ a2b_net = <<>> /\ b2a_net = <<>>
    /\ Cardinality({i \in DOMAIN trace : IsPop(i)}) = 3

\* C3: every pass of pump runs the drain of A and then the drain of B, and
\* pump returns at the end of a pass exactly when no datagram was popped in
\* that pass; otherwise it starts another pass.
C3_PumpPasses ==
    [][ppc = "test" =>
          /\ drainsInPass = <<"A", "B">>
          /\ (ppc' = "idle") = (popsInPass = 0)
          /\ (ppc' = "callA") = (popsInPass # 0)]_vars

C3_Witness ==
    /\ run = "pump" /\ pc = "done" /\ ppc = "idle"
    /\ popsInPass = 0
    /\ \E i \in DOMAIN trace : IsPop(i) /\ trace[i].who = "A"

\* The datagram popped at i: the events of its processing chain are those of
\* the same caller between i and the next pop.
NextPop(i) ==
    LET later == {j \in DOMAIN trace : j > i /\ IsPop(j)}
    IN  IF later = {} THEN Len(trace) + 1
        ELSE CHOOSE j \in later : \A k \in later : j <= k
Chain(i) == {j \in (i + 1)..(NextPop(i) - 1) : trace[j].who = trace[i].who}
ChainComplete(i) == NextPop(i) <= Len(trace) \/ ppc # "match"
ChainCalls(i, tags) == {j \in Chain(i) : IsCall(j) /\ trace[j].tag \in tags}
ChainPushes(i, q) == {j \in Chain(i) : IsPush(j) /\ trace[j].q = q}
ChainErrs(i) == {j \in Chain(i) : trace[j].ev = "err"}

WireIds == [i \in 1..(Len(a2b_net) + Len(b2a_net)) |->
               IF i <= Len(a2b_net) THEN a2b_net[i].id ELSE b2a_net[i - Len(a2b_net)].id]
PoppedIds == {trace[i].x : i \in {j \in DOMAIN trace : IsPop(j)}}
PlacedIds == {trace[i].x : i \in {j \in DOMAIN trace : IsPush(j) /\ trace[j].q \in NetQueues}}

\* Every datagram placed in a wire queue is there once or was popped once.
RemovedExactlyOnce ==
    /\ \A i, j \in DOMAIN trace : (IsPop(i) /\ IsPop(j) /\ i # j) => trace[i].x # trace[j].x
    /\ \A i, j \in DOMAIN WireIds : i # j => WireIds[i] # WireIds[j]
    /\ \A i \in DOMAIN WireIds : WireIds[i] \notin PoppedIds
    /\ PlacedIds = PoppedIds \cup {WireIds[i] : i \in DOMAIN WireIds}

\* The queues hold what the recorded pushes and pops leave in them.
QueuesMatchHistory ==
    /\ Len(a2b_net) = Cardinality(Pushes("a2b_net")) - Cardinality(Pops("a2b_net"))
    /\ Len(b2a_net) = Cardinality(Pushes("b2a_net")) - Cardinality(Pops("b2a_net"))
    /\ Len(a_tun) = Cardinality(Pushes("a_tun"))
    /\ Len(b_tun) = Cardinality(Pushes("b_tun")) - (IF pc \in {"done", "panic"} /\ received # <<>> THEN 1 ELSE 0)

\* C4 as stated: every datagram placed in a wire queue is removed exactly
\* once, and the processing of every removed datagram forwards something to
\* the other peer's wire queue, hands something to an interface queue or
\* reports an engine error.
C4_ThreeOutcomes ==
    /\ RemovedExactlyOnce
    /\ \A i \in DOMAIN trace : (IsPop(i) /\ ChainComplete(i)) =>
          \E j \in Chain(i) : IsPush(j) \/ trace[j].ev = "err"

\* C4 amended: every datagram placed in a wire queue is removed exactly once
\* (none duplicated, none lost), and the processing of a removed datagram ends
\* with exactly one of: a payload handed to the caller's interface queue, an
\* engine error reported, or Done with nothing further; before that, every
\* WriteToNetwork result was forwarded to the other peer's wire queue.
C4_FourOutcomes ==
    /\ RemovedExactlyOnce
    /\ QueuesMatchHistory
    /\ \A i \in DOMAIN trace : (IsPop(i) /\ ChainComplete(i)) =>
          LET w == trace[i].who IN
          /\ Cardinality(ChainCalls(i, NonNetTags)) = 1
          /\ Cardinality(ChainPushes(i, OutgoingOf(w)))
                = Cardinality(ChainCalls(i, {"WriteToNetwork"}))
          /\ Cardinality(ChainPushes(i, TunOf(w)))
                = Cardinality(ChainCalls(i, {"WriteToTunnelV4", "WriteToTunnelV6"}))
          /\ Cardinality(ChainErrs(i)) = Cardinality(ChainCalls(i, {"Err"}))
          /\ \A j \in Chain(i) : IsPush(j) => trace[j].q \in {OutgoingOf(w), TunOf(w)}

\* A datagram answered with Done alone, and another whose output was forwarded.
C4_Witness ==
    /\ PumpReturned
    /\ \E i \in DOMAIN trace : IsPop(i) /\ ChainCalls(i, {"Done"}) # {}
                                /\ \A j \in Chain(i) : ~IsPush(j)
    /\ \E i \in DOMAIN trace : IsPop(i) /\ ChainPushes(i, OutgoingOf(trace[i].who)) # {}

\* C5: in the scenario of main with the handshake engine, at every point the
\* number of entries appended to the two interface queues together is at most
\* the number of encapsulate calls that returned WriteToNetwork; in particular
\* none is appended before the first encapsulate.
C5_NoDuplicateDelivery ==
    WgScenario =>
        /\ TunPushes <= encNet
        /\ Len(a_tun) + Len(b_tun) + (IF received # <<>> THEN 1 ELSE 0) <= encNet

C5_Witness == WgScenario /\ pc = "done" /\ TunPushes = 1 /\ encNet = 1 /\ received = inner

\* C6: a decapsulate call that returned WriteToNetwork is followed at once by
\* the push of the produced datagram to the back of the caller's outgoing
\* queue, and then by a decapsulate call of the same engine with the empty
\* datagram; no pop and no other call comes in between.
C6_EmptyReinvoke ==
    \A i \in DOMAIN trace : (IsCall(i) /\ trace[i].tag = "WriteToNetwork") =>
        IF i = Len(trace)
        THEN ppc = "match" /\ res.tag = "WriteToNetwork" /\ res.pkt.id = trace[i].out
        ELSE /\ trace[i + 1] = EvPush(trace[i].who, OutgoingOf(trace[i].who), trace[i].out)
             /\ i + 2 <= Len(trace)
             /\ IsCall(i + 2)
             /\ trace[i + 2].who = trace[i].who
             /\ trace[i + 2].x = EmptyDatagram.id
             /\ (i + 2 = Len(trace) =>
                    LET q == IF trace[i].who = "A" THEN a2b_net ELSE b2a_net
                    IN  q # <<>> /\ q[Len(q)].id = trace[i].out)

C6_Witness ==
    \E i \in DOMAIN trace :
        /\ IsCall(i) /\ trace[i].tag = "WriteToNetwork" /\ trace[i].x # EmptyDatagram.id
        /\ i + 2 <= Len(trace) /\ IsCall(i + 2) /\ trace[i + 2].x = EmptyDatagram.id
        /\ Len(incoming_net) > 0

\* C7: after a decapsulate call that returned WriteToTunnelV4, WriteToTunnelV6,
\* Done or Err, the next engine call, if there is one, is the decapsulate of a
\* datagram popped just before it: no call with the empty datagram follows.
C7_ChainEnds ==
    \A i \in DOMAIN trace : (IsCall(i) /\ trace[i].tag \in NonNetTags) =>
        \A j \in DOMAIN trace :
            (j > i /\ IsCall(j) /\ \A k \in (i + 1)..(j - 1) : ~IsCall(k)) =>
                /\ trace[j].x # EmptyDatagram.id
                /\ IsPop(j - 1)
                /\ trace[j - 1].x = trace[j].x
                /\ trace[j - 1].who = trace[j].who

\* Each ending variant was followed by the decapsulate of the next datagram.
C7_Witness ==
    \A t \in {"WriteToTunnelV4", "Done"} :
        \E i \in DOMAIN trace :
            /\ IsCall(i) /\ trace[i].tag = t
            /\ \E j \in DOMAIN trace : j > i /\ IsCall(j) /\ trace[j].who = trace[i].who
                                       /\ \A k \in (i + 1)..(j - 1) : ~IsCall(k)

\* C8: an engine error is reported once and nothing else is done for it: the
\* event after an Err result is the error report, and the one after that, if
\* any, is the pop of the next datagram (no push, no further call); the
\* queues hold exactly what the recorded pushes and pops leave in them; the
\* drain goes on, so that process_incoming returns, and pump returns, only
\* with the inbound queues empty, also after errors.
C8_ErrorContained ==
    /\ \A i \in DOMAIN trace : (IsCall(i) /\ trace[i].tag = "Err") =>
          IF i = Len(trace)
          THEN ppc = "match" /\ res.tag = "Err"
          ELSE /\ trace[i + 1] = EvErr(trace[i].who)
               /\ (i + 2 <= Len(trace) => (IsPop(i + 2) \/ trace[i + 2].who = "main"))
    /\ stderr = Cardinality({i \in DOMAIN trace : trace[i].ev = "err"})
    /\ QueuesMatchHistory
    /\ (ppc = "ret" /\ stderr > 0) => incoming_net = <<>>
    /\ (PumpReturned /\ stderr > 0) => (a2b_net = <<>> /\ b2a_net = <<>>)

\* An error, then the next datagram of the same queue delivered to the
\* interface, and pump returned.
C8_Witness ==
    /\ run = "pump" /\ PumpReturned
    /\ \E i \in DOMAIN trace :
          /\ trace[i].ev = "err"
          /\ i + 3 <= Len(trace)
          /\ IsPop(i + 1) /\ trace[i + 1].who = trace[i].who
          /\ IsCall(i + 2) /\ trace[i + 2].tag \in {"WriteToTunnelV4", "WriteToTunnelV6"}
          /\ trace[i + 3] = EvPush(trace[i].who, TunOf(trace[i].who), 0)

\* C9: process_incoming returns true exactly when its inbound queue was
\* non-empty when it was called.
C9_DidWork == ppc = "ret" => (did_any <=> entryLen > 0)

\* Returning true although every datagram of the drain got Done or Err.
C9_Witness ==
    /\ run = "pump" /\ ppc = "ret" /\ did_any /\ entryLen > 1
    /\ \A i \in DOMAIN trace : IsCall(i) => trace[i].tag \in {"Done", "Err"}

\* C10: while process_incoming runs, its inbound queue only shrinks, by the
\* datagrams popped; when it returns the queue is empty and the number of
\* datagrams popped is the length the queue had at entry.
C10_InboundDrained ==
    /\ ppc \in {"while", "match", "ret"} => Len(incoming_net) + popsInDrain = entryLen
    /\ ppc = "ret" => (incoming_net = <<>> /\ popsInDrain = entryLen)

\* A drain that popped two datagrams and produced network-bound output returns.
C10_Witness ==
    /\ ppc = "ret" /\ popsInDrain > 1
    /\ \E i \in DOMAIN trace :
          /\ IsPush(i) /\ trace[i].who = who /\ trace[i].q = outgoing_name
          /\ Cardinality({j \in DOMAIN trace : j > i /\ IsPop(j)}) < popsInDrain

\* C11: the encapsulate call of main either returned WriteToNetwork, and then
\* the produced datagram is appended to the back of a2b_net and main goes on
\* to the second pump, or returned something else, and then main panics with
\* every queue unchanged; after a panic nothing runs any more.
C11_EncapsulateOutcome ==
    /\ [][pc = "encap" =>
            \/ /\ encNet' = encNet + 1
               /\ pc' = "pump2"
               /\ a2b_net' = Append(a2b_net, a2b_net'[Len(a2b_net')])
               /\ a2b_net'[Len(a2b_net')].id = nextId
               /\ UNCHANGED <<b2a_net, a_tun, b_tun>>
            \/ /\ encNet' = encNet
               /\ pc' = "panic"
               /\ UNCHANGED <<a2b_net, b2a_net, a_tun, b_tun>>]_vars
    /\ [](pc = "panic" => (ppc = "idle" /\ ~ENABLED Next))

\* The panic of line 49, after a first pump that processed a datagram.
C11_Witness ==
    /\ run = "main" /\ pc = "panic" /\ encNet = 0
    /\ \E i \in DOMAIN trace : IsPop(i)

\* The pushes main itself made: the handshake initiation and the encapsulated packets.
MainPushes == {i \in DOMAIN trace : IsPush(i) /\ trace[i].who = "main"}
InitiationQueued == Cardinality(MainPushes) = encNet + 1

\* C12: when format_handshake_initiation did not return WriteToNetwork, main
\* stops there: it is at the panic position, pump was not entered and
\* encapsulate was not called.
C12_InitiationFailureAborts ==
    (run = "main" /\ pc # "handshake" /\ ~InitiationQueued) =>
        (pc = "panic" /\ ppc = "idle" /\ encNet = 0)

IsPrefix(s, t) == Len(s) <= Len(t) /\ SubSeq(t, 1, Len(s)) = s
TunTags == {"WriteToTunnelV4", "WriteToTunnelV6"}
InPumpStep == ppc # "idle" \/ ppc' # "idle"
\* The peer whose engine made the last call.
LastCaller == trace[Len(trace)].who

\* C13: in every step of a pump call each interface queue keeps what it held
\* as a prefix; an interface queue changes only when a WriteToTunnel result is
\* handled, and then the payload is appended to the interface queue of the
\* peer whose engine returned it, the other interface queue and both wire
\* queues staying as they are.
C13_InterfaceAppendOnly ==
    [][InPumpStep =>
          /\ IsPrefix(a_tun, a_tun') /\ IsPrefix(b_tun, b_tun')
          /\ (a_tun' # a_tun \/ b_tun' # b_tun) => (ppc = "match" /\ res.tag \in TunTags)
          /\ (ppc = "match" /\ res.tag \in TunTags) =>
                /\ UNCHANGED <<a2b_net, b2a_net>>
                /\ IF LastCaller = "A"
                   THEN a_tun' = Append(a_tun, res.inner) /\ b_tun' = b_tun
                   ELSE b_tun' = Append(b_tun, res.inner) /\ a_tun' = a_tun]_vars

\* B's interface queue received a payload in the first pump of main and
\* another one in the second.
C13_Witness ==
    /\ run = "main" /\ pc = "verify" /\ Len(b_tun) > 1
    /\ \E i, j, k \in DOMAIN trace :
          /\ i < j /\ j < k
          /\ IsPush(i) /\ trace[i].q = "b_tun"
          /\ IsPush(j) /\ trace[j].who = "main"
          /\ IsPush(k) /\ trace[k].q = "b_tun"

ChainAllCalls(i) == {j \in Chain(i) : IsCall(j)}

\* C15: the sub-loop of lines 98-120 runs as long as the engine answers
\* WriteToNetwork: the processing of a popped datagram whose engine answered k
\* times WriteToNetwork and then something else made exactly k + 1 decapsulate
\* calls, the first with the datagram and the others with the empty datagram,
\* and pushed exactly k datagrams to the outgoing queue; the call that did not
\* answer WriteToNetwork is the last one; and whenever the result in hand is
\* WriteToNetwork the re-invocation is possible, whatever the number of
\* iterations made so far.
C15_NoIterationCap ==
    /\ \A i \in DOMAIN trace : (IsPop(i) /\ ChainComplete(i)) =>
          LET k == Cardinality(ChainCalls(i, {"WriteToNetwork"}))
              calls == ChainAllCalls(i)
          IN  /\ Cardinality(calls) = k + 1
              /\ i + 1 \in calls
              /\ trace[i + 1].x = trace[i].x /\ trace[i].x # EmptyDatagram.id
              /\ \A j \in calls \ {i + 1} : trace[j].x = EmptyDatagram.id
              /\ Cardinality(ChainPushes(i, OutgoingOf(trace[i].who))) = k
              /\ \A j \in calls : trace[j].tag \in NonNetTags => \A m \in calls : m <= j
    /\ (ppc = "match" /\ res.tag = "WriteToNetwork") => ENABLED MatchWriteToNetwork

\* A datagram whose processing went through two WriteToNetwork results before
\* the engine answered something else.
C15_Witness ==
    \E i \in DOMAIN trace :
        /\ IsPop(i) /\ ChainComplete(i)
        /\ Cardinality(ChainCalls(i, {"WriteToNetwork"})) = 2
        /\ Cardinality(ChainAllCalls(i)) = 3
        /\ Cardinality(ChainPushes(i, OutgoingOf(trace[i].who))) = 2

PushedTo(q) == LET T(e) == e.ev = "push" /\ e.q = q IN SelectSeq(trace, T)
PoppedFrom(q) == LET T(e) == e.ev = "pop" /\ e.q = q IN SelectSeq(trace, T)
EventIds(es) == [i \in 1..Len(es) |-> es[i].x]
QueueIds(q) == [i \in 1..Len(q) |-> q[i].id]
WireQueue(q) == IF q = "a2b_net" THEN a2b_net ELSE b2a_net
PopsFront(q, q2) == q # <<>> /\ q2 = Tail(q)
PushesBack(q, q2) == Len(q2) = Len(q) + 1 /\ SubSeq(q2, 1, Len(q)) = q

\* C16: every queue is first-in first-out. For each wire queue the datagrams
\* pushed so far, in push order, are the datagrams popped so far, in pop
\* order, followed by the present content of the queue from front to back;
\* and every step that changes one of the four queues either removes its
\* front entry (which, in process_incoming, is the datagram then decapsulated)
\* or adds one entry behind everything the queue held.
C16_Fifo ==
    /\ [](\A q \in NetQueues :
            EventIds(PushedTo(q)) = EventIds(PoppedFrom(q)) \o QueueIds(WireQueue(q)))
    /\ [][/\ a2b_net' = a2b_net \/ PushesBack(a2b_net, a2b_net')
             \/ (PopsFront(a2b_net, a2b_net') /\ datagram' = Head(a2b_net))
          /\ b2a_net' = b2a_net \/ PushesBack(b2a_net, b2a_net')
             \/ (PopsFront(b2a_net, b2a_net') /\ datagram' = Head(b2a_net))
          /\ a_tun' = a_tun \/ PushesBack(a_tun, a_tun')
          /\ b_tun' = b_tun \/ PushesBack(b_tun, b_tun')
             \/ (PopsFront(b_tun, b_tun') /\ received' = Head(b_tun))]_vars

\* Two datagrams were popped from one wire queue, and a datagram was pushed to
\* a wire queue that was not empty.
C16_Witness ==
    /\ \E q \in NetQueues : Len(PoppedFrom(q)) > 1
    /\ \E j \in DOMAIN trace :
          /\ IsPush(j) /\ trace[j].q \in NetQueues /\ trace[j].who \in Peers
          /\ Cardinality({i \in Pushes(trace[j].q) : i < j})
                > Cardinality({i \in Pops(trace[j].q) : i < j})

WiresEmpty == a2b_net = <<>> /\ b2a_net = <<>>
BetweenDatagrams ==
    \/ ppc \in {"callA", "callB", "while", "ret", "test"}
    \/ ppc = "idle" /\ pc \in {"pump", "pump1", "pump2"}

\* C19: the step by which pump returns leaves both wire queues empty, whatever
\* the queues held at the call and whatever the engines answered; and while
\* both wire queues are empty and no datagram is being processed, a step of
\* pump calls no engine and changes no queue and no engine, so that a pump
\* called on empty wire queues returns after one pass having done nothing.
C19_PumpReturnsOnEmpty ==
    /\ [][(ppc = "test" /\ ppc' = "idle") => (a2b_net' = <<>> /\ b2a_net' = <<>>)]_vars
    /\ [](PumpReturned => WiresEmpty)
    /\ [][(WiresEmpty /\ BetweenDatagrams) =>
             /\ UNCHANGED <<a, b, a2b_net, b2a_net, a_tun, b_tun, trace, fuel, nextId, stderr>>
             /\ ppc' # "match"
             /\ (ppc = "test" /\ popsInPass = 0) => ppc' = "idle"]_vars

\* In main the initiation was not queued, so the first pump was called on
\* empty wire queues and returned; the second pump then returned after both
\* peers had popped datagrams.
C19_Witness ==
    /\ run = "main" /\ pc = "verify" /\ ppc = "idle"
    /\ ~InitiationQueued /\ encNet = 1
    /\ \A w \in Peers : \E i \in DOMAIN trace : IsPop(i) /\ trace[i].who = w

IncomingOf(w) == OutgoingOf(Other(w))
\* Who emitted the datagram with identifier x: the peers whose engine output
\* it is (the pushes of main are outputs of A's engine).
EmittersOf(x) ==
    {IF trace[i].who = "main" THEN "A" ELSE trace[i].who :
        i \in {j \in DOMAIN trace : IsPush(j) /\ trace[j].q \in NetQueues /\ trace[j].x = x}}
NewEvents == SubSeq(trace', Len(trace) + 1, Len(trace'))
WireQueueNext(q) == IF q = "a2b_net" THEN a2b_net' ELSE b2a_net'

\* C20: the queues are wired crosswise and never otherwise. In every step in
\* which the engine of a peer w decapsulates a datagram, that datagram is the
\* front of the wire queue towards w (b2a_net for A, a2b_net for B), which
\* loses it, and it was not emitted by w's own engine; in every step that
\* handles a WriteToNetwork result of w's engine the datagram is appended to
\* the wire queue away from w (a2b_net for A, b2a_net for B) and the wire
\* queue towards w is left as it is.
C20_CrossWired ==
    [][/\ \A k \in DOMAIN NewEvents :
             (NewEvents[k].ev = "call" /\ NewEvents[k].x # EmptyDatagram.id) =>
                 LET w == NewEvents[k].who
                     q == WireQueue(IncomingOf(w))
                 IN  /\ q # <<>>
                     /\ Head(q).id = NewEvents[k].x
                     /\ WireQueueNext(IncomingOf(w)) = Tail(q)
                     /\ WireQueueNext(OutgoingOf(w)) = WireQueue(OutgoingOf(w))
                     /\ w \notin EmittersOf(NewEvents[k].x)
       /\ (ppc = "match" /\ res.tag = "WriteToNetwork") =>
             LET w == LastCaller IN
             /\ WireQueueNext(OutgoingOf(w)) = Append(WireQueue(OutgoingOf(w)), res.pkt)
             /\ WireQueueNext(IncomingOf(w)) = WireQueue(IncomingOf(w))
             /\ a_tun' = a_tun /\ b_tun' = b_tun]_vars

\* A decapsulated a datagram emitted by B's engine and B one emitted by A's.
C20_Witness ==
    \A w \in Peers :
        \E i \in DOMAIN trace :
            /\ IsCall(i) /\ trace[i].who = w /\ trace[i].x # EmptyDatagram.id
            /\ EmittersOf(trace[i].x) = {Other(w)}

\* C14: for engines whose answers are determined by their state and the
\* datagram, the pump of the code (A drained first in every pass), called
\* with any sampled engines and wire queues, returns with both wire queues
\* empty and with the interface queues that a pump draining B first in every
\* pass computes from the same engines and queues, which also ends with both
\* wire queues empty.
C14_DrainOrderIrrelevant ==
    (run = "order" /\ pc = "done" /\ ppc = "idle") =>
        LET ba == FPump(start, <<"B", "A">>) IN
        /\ WiresEmpty
        /\ ba.a2b_net = <<>> /\ ba.b2a_net = <<>>
        /\ ba.a_tun = a_tun /\ ba.b_tun = b_tun

\* Both wire queues held datagrams at the call, both interface queues
\* received a packet, and network output was exchanged during the pump.
C14_Witness ==
    /\ run = "order" /\ pc = "done" /\ ppc = "idle"
    /\ start.a2b_net # <<>> /\ start.b2a_net # <<>>
    /\ a_tun # <<>> /\ b_tun # <<>>
    /\ \E i \in DOMAIN trace : IsPush(i) /\ trace[i].who \in Peers /\ trace[i].q \in NetQueues

\* The function agrees with the step-by-step pump when it drains A first.
FPumpAgrees ==
    (run = "order" /\ pc = "done" /\ ppc = "idle") =>
        LET ab == FPump(start, <<"A", "B">>) IN
        /\ ab.a_tun = a_tun /\ ab.b_tun = b_tun /\ ab.a2b_net = a2b_net /\ ab.b2a_net = b2a_net
        /\ ab.a = a /\ ab.b = b /\ ab.id = nextId

\* The total-length field of a packet: bytes 2-3, big-endian.
TotalLength(pkt) == pkt[3] * 256 + pkt[4]
Suffix(pkt, n) == SubSeq(pkt, Len(pkt) - n + 1, Len(pkt))

\* C17: for every payload the packet returned by build_ipv4_udp has a
\* total-length field equal to 28 + len(payload), is 28 + len(payload) bytes
\* long, and ends with the payload.
C17_BuildLengths ==
    cpc = "built" =>
        /\ TotalLength(c_out) = 28 + Len(c_in.payload)
        /\ Len(c_out) = 28 + Len(c_in.payload)
        /\ Suffix(c_out, Len(c_in.payload)) = c_in.payload

\* What build_ipv4_udp does for every payload: the packet is 28 +
\* len(payload) bytes long and ends with the payload, and its total-length
\* field holds the low 16 bits of 28 + len(payload).
BuildLengthsTruncated ==
    cpc = "built" =>
        /\ TotalLength(c_out) = (28 + Len(c_in.payload)) % 65536
        /\ Len(c_out) = 28 + Len(c_in.payload)
        /\ Suffix(c_out, Len(c_in.payload)) = c_in.payload

\* The validation form of the checksum, by the arithmetic of one's-complement
\* sums: the end-around-carry sum of all ten words is their sum reduced by
\* multiples of 65535 into 1..65535 (0 for the all-zero header), complemented.
RECURSIVE EndAround(_)
EndAround(x) == IF x > 65535 THEN EndAround(x - 65535) ELSE x
RECURSIVE AllWords(_, _)
AllWords(hdr, i) == IF i >= 20 THEN 0 ELSE hdr[i + 1] * 256 + hdr[i + 2] + AllWords(hdr, i + 2)
Validate(hdr) == 65535 - EndAround(AllWords(hdr, 0))
WithChecksum(hdr, ck) == [hdr EXCEPT ![11] = ck \div 256, ![12] = ck % 256]

\* C18: for every sampled 20-byte header, the checksum is the same whatever
\* bytes 10-11 hold, and the header with bytes 10-11 replaced by the checksum
\* validates to 0; the header of every packet built by build_ipv4_udp
\* validates to 0.
C18_ChecksumValidates ==
    /\ cpc = "summed" =>
          /\ c_out \in 0..65535
          /\ c_out = ipv4_checksum(WithChecksum(c_in, 0))
          /\ Validate(WithChecksum(c_in, c_out)) = 0
    /\ cpc = "built" => Validate(SubSeq(c_out, 1, 20)) = 0

\* A header whose word sum needs two rounds of carry folding, with a
\* non-zero checksum field on entry.
C18_Witness ==
    /\ cpc = "summed"
    /\ SumWords(c_in, 0, 0) > 65535
    /\ FoldOnce(SumWords(c_in, 0, 0)) > 65535
    /\ c_in[11] # 0

====
